---- MODULE Spec2Model ----
(***************************************************************************)
(* Flow cytometry gate functions of fc/gate.py: start_stop,                *)
(* circular_median, whitening and density.                                 *)
(*                                                                         *)
(* Every gate is a pure function of an event table and its parameters.     *)
(* The state holds the table (data), the gate that was called (gate), the  *)
(* parameters of the call (args) and what the call produced (ret): the     *)
(* values of the function's locals when it returned, or the exception it   *)
(* raised together with the steps it had performed by then.                *)
(*                                                                         *)
(* Numbers.  A table entry is stored as an integer count of 1/Res channel  *)
(* units, so that non-integer channel values exist in the model.  A median *)
(* of an even number of entries is a mean of two entries, so medians and   *)
(* median-centred coordinates are stored in 1/(2*Res) units.  A distance d *)
(* of the code is stored as its square (np.sqrt is strictly increasing, so *)
(* the order and the ties of the squares are those of the distances).      *)
(* A gate fraction is an exact rational k/GFDen; the rounding of the float  *)
(* product gate_fraction*N is not modelled.  The histogram of density has  *)
(* NumBins bins per channel in place of 1024, and its Gaussian kernel has   *)
(* integer weights in the proportions of a Gaussian.                        *)
(***************************************************************************)
EXTENDS Integers, Sequences, FiniteSets, TLC

VARIABLES data, gate, args, ret

vars == <<data, gate, args, ret>>

(* ------------------------------ bounds -------------------------------- *)
\* most rows of an event table
MaxN == 3
\* table entries are counts of 1/Res channel units
Res == 2
\* gate fractions are k/GFDen, k = 1..GFDen
GFDen == 4
\* largest num_start / num_stop tried
MaxTrim == 3

(* --------------------------- arithmetic ------------------------------- *)
Min(a, b) == IF a < b THEN a ELSE b
Max(a, b) == IF a > b THEN a ELSE b

\* np.ceil(a / b) for b > 0
Ceil(a, b) == IF a >= 0 THEN (a + b - 1) \div b ELSE -((-a) \div b)

RECURSIVE SumOver(_, _)
SumOver(f, S) ==
  IF S = {} THEN 0
  ELSE LET x == CHOOSE y \in S : TRUE IN f[x] + SumOver(f, S \ {x})

Range(s) == {s[i] : i \in DOMAIN s}

\* the sequence f with every entry evaluated once (an array holds values)
Array(f) == SubSeq(f, 1, Len(f))

(* --------------------------- event tables ----------------------------- *)
\* data.shape of a numpy array: (N,) for a 1-D array, (N, D) for a 2-D one
shape(dat) ==
  IF dat.ndim = 1 THEN <<Len(dat.rows)>> ELSE <<Len(dat.rows), dat.ncols>>

\* data[:,0:2]: the first two columns, or fewer when the table has fewer
NumCols02(dat) == Min(dat.ncols, 2)

\* rows of D entries; the columns after the second hold a fixed filler
Rows(D, vals) ==
  {r \in [1..D -> vals \cup {Res}] :
      \A c \in 1..D : (c <= 2 => r[c] \in vals) /\ (c > 2 => r[c] = Res)}

Tables2D(ns, ds, vals) ==
  UNION {{[ndim |-> 2, ncols |-> D, rows |-> r] : r \in [1..N -> Rows(D, vals)]}
           : <<N, D>> \in ns \X ds}

Tables1D(ns, vals) ==
  UNION {{[ndim |-> 1, ncols |-> 0, rows |-> r] : r \in [1..N -> [1..1 -> vals]]}
           : N \in ns}

\* whole-number channel values 0, 1, 3
IntValues == {0, Res, 3 * Res}

GateFractions == {[num |-> k, den |-> GFDen] : k \in 1..GFDen}

NoArgs == [gate_fraction |-> [num |-> 0, den |-> 1], num_start |-> 0, num_stop |-> 0]
NoRet == [outcome |-> "none"]

\* an exception leaves the function: no value is returned
Raise(exc, done) == [outcome |-> exc, steps |-> done]

(* ----------------------------- sorting -------------------------------- *)
\* InsertPos of a sort that is not stable: k enters before the elements of
\* equal key
RECURSIVE InsertPosBeforeEqual(_, _, _, _)
InsertPosBeforeEqual(k, s, key, i) ==
  IF i > Len(s) THEN i
  ELSE IF key[k] <= key[s[i]] THEN i
  ELSE InsertPosBeforeEqual(k, s, key, i + 1)

\* position at which k enters the sorted sequence s: after every element
\* whose key is not larger (Python's sort is stable)
RECURSIVE InsertPos(_, _, _, _)
InsertPos(k, s, key, i) ==
  IF i > Len(s) THEN i
  ELSE IF key[k] < key[s[i]] THEN i
  ELSE InsertPos(k, s, key, i + 1)

InsertAt(s, i, k) == SubSeq(s, 1, i - 1) \o <<k>> \o SubSeq(s, i, Len(s))

RECURSIVE SortFrom(_, _, _)
SortFrom(todo, done, key) ==
  IF todo = <<>> THEN done
  ELSE SortFrom(Tail(todo), InsertAt(done, InsertPos(Head(todo), done, key, 1), Head(todo)), key)

\* sorted(xrange(len), key=lambda k: key[k])
sorted(len, key) == SortFrom([i \in 1..len |-> i], <<>>, Array(key))

(* ---------------------------- start_stop ------------------------------ *)
\* Python's normalisation of a slice bound i for a sequence of length len
SliceBound(i, len) == IF i < 0 THEN Max(i + len, 0) ELSE Min(i, len)

\* 1-based positions of mask[:stop]
SliceTo(stop, len) == 1..SliceBound(stop, len)

\* 1-based positions of mask[start:]
SliceFrom(start, len) == (SliceBound(start, len) + 1)..len

start_stop(dat, num_start, num_stop) ==
  LET N == shape(dat)[1] IN
  IF N < num_start + num_stop THEN Raise("ValueError", {})
  ELSE [outcome |-> "ok",
        mask |-> [k \in 1..N |->
                    ~(k \in SliceTo(num_start, N)) /\ ~(k \in SliceFrom(-num_stop, N))]]

CallStartStop ==
  /\ gate = "none"
  /\ \E a \in 0..MaxTrim, b \in 0..MaxTrim :
       /\ args' = [NoArgs EXCEPT !.num_start = a, !.num_stop = b]
       /\ ret' = start_stop(data, a, b)
  /\ gate' = "start_stop"
  /\ UNCHANGED data

InitTrim ==
  /\ data \in Tables2D(0..MaxN, {1, 2}, {0, Res}) \cup Tables1D(0..MaxN, {0, Res})
  /\ gate = "none"
  /\ args = NoArgs
  /\ ret = NoRet

SpecTrim == InitTrim /\ [][CallStartStop]_vars

(* -------------------------- circular_median --------------------------- *)
\* number of contour angles: len(np.arange(0, 2*np.pi, 2*np.pi/100))
NumTheta == 100

\* column c of the table, as a sequence over the events
Column(dat, c) == Array([k \in 1..Len(dat.rows) |-> dat.rows[k][c]])

\* twice np.median of a non-empty sequence: the middle entry of the sorted
\* sequence, or the mean of the two middle entries
median2(col) ==
  LET N == Len(col)
      o == sorted(N, col)
      h == N \div 2
  IN  IF N % 2 = 1 THEN 2 * col[o[h + 1]] ELSE col[o[h]] + col[o[h + 1]]

\* NumKeep rounding down: int(gate_fraction*N)
NumKeepFloor(gf, N) == (gf.num * N) \div gf.den

\* n = int(np.ceil(gate_fraction*float(data.shape[0])))
NumKeep(gf, N) == Ceil(gf.num * N, gf.den)

\* m = np.median(data[:,0:2],0), in 1/(2*Res) units
MedianPoint(dat) == Array([c \in 1..NumCols02(dat) |-> median2(Column(dat, c))])

\* X = m-data[:,0:2], in 1/(2*Res) units
Centered(dat, m) ==
  [k \in 1..Len(dat.rows) |-> [c \in 1..NumCols02(dat) |-> m[c] - 2 * dat.rows[k][c]]]

\* np.sum(np.square(X),1): the square of the code's d
SquaredNorms(X) ==
  Array([k \in DOMAIN X |-> SumOver([c \in DOMAIN X[k] |-> X[k][c] * X[k][c]], DOMAIN X[k])])

\* mask = zeros(N); mask[idx[:n]] = True
MaskOf(idx, n, N) == [k \in 1..N |-> \E j \in SliceTo(n, N) : idx[j] = k]

\* 1-based position of Python's seq[i] (a negative i counts from the end);
\* 0 when the index is out of range
PyIndex(i, len) ==
  LET j == IF i < 0 THEN i + len ELSE i IN IF j >= 0 /\ j < len THEN j + 1 ELSE 0

\* the point (cx + sqrt(rsq)*cos(2*pi*k/NumTheta), cy + sqrt(rsq)*sin(2*pi*k/NumTheta))
Vertex(cx, cy, rsq, k) == [cx |-> cx, cy |-> cy, rsq |-> rsq, k |-> k]

\* Circle without the closing point
CircleOpen(cx, cy, rsq) == [i \in 1..NumTheta |-> Vertex(cx, cy, rsq, i - 1)]

\* the NumTheta vertices followed by x.append(x[0]), y.append(y[0])
Circle(cx, cy, rsq) ==
  LET xy == [i \in 1..NumTheta |-> Vertex(cx, cy, rsq, i - 1)] IN Append(xy, xy[1])

circular_median(dat, gf) ==
  IF Len(shape(dat)) < 2 THEN Raise("ValueError", {})
  ELSE IF shape(dat)[1] < 2 THEN Raise("ValueError", {})
  ELSE
    LET N == shape(dat)[1]
        n == NumKeep(gf, N)
        m == MedianPoint(dat)
        d == SquaredNorms(Centered(dat, m))
        idx == sorted(N, d)
        mask == MaskOf(idx, n, N)
        last == PyIndex(n - 1, N)
    IN  IF last = 0 THEN Raise("IndexError", {"median", "distance", "sort", "mask"})
        ELSE IF Len(m) < 2
          THEN Raise("IndexError", {"median", "distance", "sort", "mask"})
          ELSE [outcome |-> "ok", n |-> n, m |-> m, d |-> d, idx |-> idx,
                mask |-> mask, r |-> d[idx[last]],
                contour |-> Circle(m[1], m[2], d[idx[last]])]

CallCircularMedian ==
  /\ gate = "none"
  /\ \E gf \in GateFractions :
       /\ args' = [NoArgs EXCEPT !.gate_fraction = gf]
       /\ ret' = circular_median(data, gf)
  /\ gate' = "circular_median"
  /\ UNCHANGED data

\* tables of every shape: 1-D, one to three columns, no rows to MaxN rows
RankTables ==
  Tables2D(0..MaxN, {1, 2, 3}, IntValues) \cup Tables1D(0..MaxN, IntValues)

InitRank ==
  /\ data \in RankTables
  /\ gate = "none"
  /\ args = NoArgs
  /\ ret = NoRet

SpecMedian == InitRank /\ [][CallCircularMedian]_vars

(* ----------------------------- whitening ------------------------------ *)
\* Real numbers of the whitening transform.  An eigenvalue is a rational
\* [num, den].  A unit eigenvector is an integer direction u with the square
\* nsq of its length: the vector u/sqrt(nsq).

RECURSIVE GCD(_, _)
GCD(a, b) == IF b = 0 THEN a ELSE GCD(b, a % b)

Abs(a) == IF a < 0 THEN -a ELSE a

\* ScatterMatrix as a sample covariance: divided by N - 1
ScatterMatrixSample(X) ==
  LET N == Len(X)
      nc == Len(X[1])
  IN  [xtx |-> [i \in 1..nc |-> [j \in 1..nc |->
                  SumOver([k \in 1..N |-> X[k][i] * X[k][j]], 1..N)]],
       den |-> N - 1]

\* X.T.dot(X) / float(data.shape[0]): the matrix xtx over the divisor den
ScatterMatrix(X) ==
  LET N == Len(X)
      nc == Len(X[1])
  IN  [xtx |-> [i \in 1..nc |-> [j \in 1..nc |->
                  SumOver([k \in 1..N |-> X[k][i] * X[k][j]], 1..N)]],
       den |-> N]

\* discriminant of the characteristic polynomial of a symmetric 2x2 matrix
Disc(A) == (A[1][1] - A[2][2]) * (A[1][1] - A[2][2]) + 4 * A[1][2] * A[1][2]

\* the largest s in lo..hi with s*s <= q (lo*lo <= q), by bisection
RECURSIVE RootIn(_, _, _)
RootIn(q, lo, hi) ==
  IF lo >= hi THEN lo
  ELSE LET mid == (lo + hi + 1) \div 2 IN
       IF mid * mid <= q THEN RootIn(q, mid, hi) ELSE RootIn(q, lo, mid - 1)

\* floor of the square root of q >= 0 (46340 is the largest root of a 32-bit square)
Isqrt(q) == RootIn(q, 0, Min(q, 46340))
IsSquare(q) == Isqrt(q) * Isqrt(q) = q

UnitVector(u1, u2) ==
  LET g == GCD(Abs(u1), Abs(u2)) IN
  [u |-> <<u1 \div g, u2 \div g>>, nsq |-> (u1 \div g) * (u1 \div g) + (u2 \div g) * (u2 \div g)]

\* np.linalg.eig(S) for a symmetric 2x2 S whose eigenvalues are rational:
\* eigenvalues w and unit eigenvectors v (v[i] belongs to w[i]).  A diagonal
\* S has the unit vectors as eigenvectors; otherwise both orders of the pair
\* are possible results.
eig(S) ==
  LET A == S.xtx
      a == A[1][1]
      b == A[1][2]
      c == A[2][2]
      s == Isqrt(Disc(A))
      hi == [w |-> [num |-> a + c + s, den |-> 2 * S.den], v |-> UnitVector(2 * b, c - a + s)]
      lo == [w |-> [num |-> a + c - s, den |-> 2 * S.den], v |-> UnitVector(2 * b, c - a - s)]
  IN  IF b = 0
      THEN {[w |-> <<[num |-> a, den |-> S.den], [num |-> c, den |-> S.den]>>,
             v |-> <<UnitVector(1, 0), UnitVector(0, 1)>>]}
      ELSE {[w |-> <<hi.w, lo.w>>, v |-> <<hi.v, lo.v>>],
            [w |-> <<lo.w, hi.w>>, v |-> <<lo.v, hi.v>>]}

\* the tables whose scatter matrix has rational eigenvalues (every table that
\* fails validation or has a single column is among them)
EigRational(dat) ==
  (dat.ndim = 2 /\ dat.ncols >= 2 /\ Len(dat.rows) >= 2)
    => LET m == [c \in 1..2 |-> median2(Column(dat, c))]
           X == [k \in 1..Len(dat.rows) |-> [c \in 1..2 |-> m[c] - 2 * dat.rows[k][c]]]
           A == [i \in 1..2 |-> [j \in 1..2 |->
                   SumOver([k \in 1..Len(X) |-> X[k][i] * X[k][j]], 1..Len(X))]]
       IN  IsSquare(Disc(A))

\* S has an eigenvalue 0: both columns centred on a line through the median
Singular(S) == S.xtx[1][1] * S.xtx[2][2] = S.xtx[1][2] * S.xtx[1][2]

\* X.dot(v).dot(np.diag(1.0/np.sqrt(w))): entry [k][i] is p[k][i]*sqrt(sc[i]),
\* p = X.u the integer projections and sc[i] = 1/(nsq[i]*w[i])
Transform(X, e) ==
  [p |-> [k \in DOMAIN X |-> [i \in 1..2 |-> X[k][1] * e.v[i].u[1] + X[k][2] * e.v[i].u[2]]],
   sc |-> [i \in 1..2 |-> [num |-> e.w[i].den, den |-> e.v[i].nsq * e.w[i].num]]]

\* np.sum(np.square(transformed_data),1): the squares of the code's d, as
\* numerators over the common positive denominator sc[1].den*sc[2].den
TransformedNorms(t) ==
  Array([k \in DOMAIN t.p |->
           t.p[k][1] * t.p[k][1] * t.sc[1].num * t.sc[2].den
             + t.p[k][2] * t.p[k][2] * t.sc[2].num * t.sc[1].den])

\* every order sorted() can leave N indices in
Orderings(N) == {f \in [1..N -> 1..N] : \A i, j \in 1..N : f[i] = f[j] => i = j}

WhiteningSteps == {"median", "scatter", "eig", "transform", "distance", "sort", "mask"}

\* the possible results of whitening(data, gate_fraction)
whitening(dat, gf) ==
  IF Len(shape(dat)) < 2 THEN {Raise("ValueError", {})}
  ELSE IF shape(dat)[1] < 2 THEN {Raise("ValueError", {})}
  ELSE
    LET N == shape(dat)[1]
        n == NumKeep(gf, N)
        m == MedianPoint(dat)
        X == Centered(dat, m)
        S == ScatterMatrix(X)
        last == PyIndex(n - 1, N)
    IN  IF last = 0 THEN {Raise("IndexError", WhiteningSteps)}
        ELSE IF Len(m) < 2
          \* c (101x2) times np.diag(np.sqrt(w)) (1x1): shapes not aligned
          THEN {Raise("ValueError", WhiteningSteps)}
        ELSE IF Singular(S)
          \* 1.0/np.sqrt(w) is inf or nan, or huge when rounding leaves an
          \* eigenvalue just off zero: d and the ranking depend on the rounding
          THEN {[outcome |-> "ok", finite |-> FALSE, n |-> n, m |-> m, S |-> S,
                 idx |-> idx, mask |-> MaskOf(idx, n, N),
                 contour |-> [i \in 1..(NumTheta + 1) |-> "rounding"]]
                  : idx \in Orderings(N)}
        ELSE {LET t == Transform(X, e)
                  d == TransformedNorms(t)
                  idx == sorted(N, d)
              IN  [outcome |-> "ok", finite |-> TRUE, n |-> n, m |-> m, S |-> S,
                   w |-> e.w, v |-> e.v, transformed_data |-> t, d |-> d,
                   idx |-> idx, mask |-> MaskOf(idx, n, N),
                   contour |-> [i \in 1..(NumTheta + 1) |->
                                  [m |-> m, w |-> e.w, v |-> e.v, rsq |-> d[idx[last]],
                                   k |-> (i - 1) % NumTheta]]]
                : e \in eig(S)}

CallWhitening ==
  /\ gate = "none"
  /\ \E gf \in GateFractions :
       /\ args' = [NoArgs EXCEPT !.gate_fraction = gf]
       /\ ret' \in whitening(data, gf)
  /\ gate' = "whitening"
  /\ UNCHANGED data

InitWhiten ==
  /\ data \in {t \in RankTables : EigRational(t)}
  /\ gate = "none"
  /\ args = NoArgs
  /\ ret = NoRet

\* both ranking gates, on the tables whitening's arithmetic is exact for
SpecRank == InitWhiten /\ [][CallCircularMedian \/ CallWhitening]_vars

(* ------------------------------ density ------------------------------- *)
\* bins per channel of the 2D histogram (1024 in the code, bins 0..1023)
NumBins == 3

\* e = np.arange(NumBins+1)-0.5; np.histogram2d(..., bins=e): the bin of the
\* channel value v/Res.  Bin k is [k-0.5, k+0.5); the last bin also holds its
\* upper edge; -1 when v lies outside every bin
BinOf(v) ==
  IF 2 * v < -Res \/ 2 * v > 2 * Res * (NumBins - 1) + Res THEN -1
  ELSE IF 2 * v = 2 * Res * (NumBins - 1) + Res THEN NumBins - 1
  ELSE (2 * v + Res) \div (2 * Res)

\* C.ravel() position (1-based) of bin (i, j), and np.unravel_index back
Ravel(i, j) == i * NumBins + j + 1
Unravel(l) == <<(l - 1) \div NumBins, (l - 1) % NumBins>>

\* C,xe,ye = np.histogram2d(data[:,0], data[:,1], bins=e), flattened
Histogram2d(dat) ==
  Array([l \in 1..(NumBins * NumBins) |->
           Cardinality({k \in 1..Len(dat.rows) :
                          <<BinOf(dat.rows[k][1]), BinOf(dat.rows[k][2])>> = Unravel(l)})])

\* a Gaussian kernel with weights proportional to q^(-x*x) for x = -rad..rad
\* (q = exp(1/(2*sigma^2))), given from the centre outwards
RECURSIVE Pow(_, _)
Pow(q, e) == IF e = 0 THEN 1 ELSE q * Pow(q, e - 1)

GaussKernel(sigma) == [x \in 0..sigma.rad |-> Pow(sigma.q, sigma.rad * sigma.rad - x * x)]

\* scipy.ndimage.filters.gaussian_filter(C, sigma, order=0, mode='constant',
\* cval=0.0): the separable convolution, zero outside the grid
GaussianFilter(vC, sigma) ==
  LET K == GaussKernel(sigma)
      B == 0..(NumBins - 1)
      src == {<<i, j>> \in B \X B : vC[Ravel(i, j)] # 0}
  IN  Array([l \in 1..(NumBins * NumBins) |->
         LET at == Unravel(l)
             near == {b \in src : Abs(b[1] - at[1]) <= sigma.rad /\ Abs(b[2] - at[2]) <= sigma.rad}
         IN  SumOver([b \in near |->
                        K[Abs(b[1] - at[1])] * K[Abs(b[2] - at[2])] * vC[Ravel(b[1], b[2])]],
                     near)])

\* sortedReverse without reverse=True: ascending
sortedAscending(len, key) == sorted(len, key)

\* sorted(xrange(len), key=lambda idx: key[idx], reverse=True): descending,
\* equal keys left in their original order
sortedReverse(len, key) == sorted(len, [i \in 1..len |-> -key[i]])

\* np.nonzero(np.cumsum(svC)>=n)[0][0], 1-based, scanning from position i
\* with acc the sum of the entries before i; 0 when no entry reaches n
RECURSIVE FirstReachFrom(_, _, _, _)
FirstReachFrom(svC, n, i, acc) ==
  IF i > Len(svC) THEN 0
  ELSE IF acc + svC[i] >= n THEN i
  ELSE FirstReachFrom(svC, n, i + 1, acc + svC[i])

FirstReach(svC, n) == FirstReachFrom(svC, n, 1, 0)

\* tuple(event) in accepted_points for event in data[:,0:2]: the event's own
\* two values equal the two indices of an accepted bin
EventAccepted(row, accepted_points) ==
  \E b \in accepted_points : row[1] = Res * b[1] /\ row[2] = Res * b[2]

\* CollectContours without the test of the path codes
CollectUnchecked(t, idx, cntr) ==
  [raised |-> FALSE, cntr |-> [i \in 1..(Len(t) \div 2) |-> t[i]]]

\* the loop over the list t returned by the tracer, from contour idx on:
\* the vertex arrays collected, or raised when a code array holds a code
\* other than 1 and 2
RECURSIVE CollectContours(_, _, _)
CollectContours(t, idx, cntr) ==
  LET num_cntrs == Len(t) \div 2 IN
  IF idx > num_cntrs THEN [raised |-> FALSE, cntr |-> cntr]
  ELSE IF \E c \in Range(t[num_cntrs + idx].codes) : c # 1 /\ c # 2
    THEN [raised |-> TRUE, cntr |-> cntr]
  ELSE CollectContours(t, idx + 1, Append(cntr, t[idx]))

DensitySteps == {"histogram", "blur", "normalize", "sort", "cumsum"}

\* lists the contour tracer can return: k vertex arrays, then k code arrays
\* (79 is matplotlib's CLOSEPOLY)
CodeArrays == {<<1, 2>>, <<1, 2, 79>>}

TracerLists ==
  {<<>>}
    \cup {<<[verts |-> 1], [codes |-> c]>> : c \in CodeArrays}
    \cup {<<[verts |-> 1], [verts |-> 2], [codes |-> c], [codes |-> e]>>
            : <<c, e>> \in CodeArrays \X CodeArrays}

\* the possible results of density(data, sigma, gate_fraction): one for each
\* list t that mpl_cntr.trace can return
density(dat, sigma, gf) ==
  IF Len(shape(dat)) < 2 THEN {Raise("ValueError", {})}
  ELSE IF shape(dat)[1] < 2 THEN {Raise("ValueError", {})}
  \* data[:,1] of a table with a single column
  ELSE IF dat.ncols < 2 THEN {Raise("IndexError", {})}
  ELSE
    LET N == shape(dat)[1]
        n == NumKeep(gf, N)
        vC == Histogram2d(dat)
        bC == GaussianFilter(vC, sigma)
        \* D = bC / np.sum(bC): the entries of vD are bC[l]/total (nan when
        \* total is 0, and a sort whose comparisons all fail keeps the order)
        total == SumOver(bC, DOMAIN bC)
        sidx == sortedReverse(Len(bC), bC)
        svC == Array([i \in 1..Len(sidx) |-> vC[sidx[i]]])
        Nidx == FirstReach(svC, n)
    IN  IF Nidx = 0 THEN {Raise("IndexError", DensitySteps)}
        ELSE
          LET accepted_points == {Unravel(sidx[i]) : i \in 1..Nidx}
              mask == [k \in 1..N |-> EventAccepted(dat.rows[k], accepted_points)]
              core == [outcome |-> "ok", n |-> n, vC |-> vC, bC |-> bC, total |-> total,
                       sidx |-> sidx, Nidx |-> Nidx, accepted_points |-> accepted_points,
                       mask |-> mask, level |-> [num |-> bC[sidx[Nidx]], den |-> total]]
          IN  {LET got == CollectContours(t, 1, <<>>) IN
               IF got.raised
               THEN Raise("Exception", DensitySteps \cup {"mask", "trace"}) @@ [t |-> t]
               ELSE core @@ [t |-> t, cntr |-> got.cntr]
                 : t \in TracerLists}

Sigmas == {[q |-> 2, rad |-> r] : r \in {0, 1}}

CallDensity ==
  /\ gate = "none"
  /\ \E gf \in GateFractions, sigma \in Sigmas :
       /\ args' = [NoArgs EXCEPT !.gate_fraction = gf] @@ [sigma |-> sigma]
       /\ ret' \in density(data, sigma, gf)
  /\ gate' = "density"
  /\ UNCHANGED data

\* rows of two channels: the whole values 0 and 1, and on channel 1 the
\* fractional value 1 + 1/Res and the value NumBins, above the last bin
DensityRows ==
  {<<0, 0>>, <<Res, 0>>, <<Res, Res>>, <<Res + 1, 0>>, <<Res * NumBins, 0>>}

\* most rows of a table given to density
MaxDensityN == 3

DensityTables ==
  {[ndim |-> 2, ncols |-> 2, rows |-> r] : r \in UNION {[1..N -> DensityRows] : N \in 0..MaxDensityN}}
    \cup Tables2D({0, 2}, {1, 3}, {0, Res})
    \cup Tables1D({0, 2}, {0, Res})

InitDensity ==
  /\ data \in DensityTables
  /\ gate = "none"
  /\ args = NoArgs
  /\ ret = NoRet

SpecDensity == InitDensity /\ [][CallDensity]_vars

\* density on the tables whose channel values are all whole numbers
InitDensityWhole ==
  /\ data \in {t \in DensityTables : \A k \in 1..Len(t.rows) : t.rows[k][1] % Res = 0}
  /\ gate = "none"
  /\ args = NoArgs
  /\ ret = NoRet

SpecDensityWhole == InitDensityWhole /\ [][CallDensity]_vars

\* the three core gates on one set of tables
SpecGates == InitWhiten /\ [][CallCircularMedian \/ CallWhitening \/ CallDensity]_vars

(* ============================ properties ============================== *)
NumEvents == Len(data.rows)

\* the table has at least 2 events and at least 2 channels
ValidTable == data.ndim = 2 /\ data.ncols >= 2 /\ NumEvents >= 2

CountTrue(mask) == Cardinality({k \in DOMAIN mask : mask[k]})

\* ceil(gate_fraction * N): the least c with c >= gate_fraction * N
CeilFraction(gf, N) == CHOOSE c \in 0..N : c * gf.den >= gf.num * N /\ (c - 1) * gf.den < gf.num * N

\* the k-th smallest entry of a sequence
KthSmallest(seq, k) ==
  CHOOSE v \in Range(seq) :
    /\ Cardinality({i \in DOMAIN seq : seq[i] < v}) < k
    /\ Cardinality({i \in DOMAIN seq : seq[i] <= v}) >= k

\* twice the median of column c of the table
ColumnMedian2(c) ==
  LET col == [k \in 1..NumEvents |-> data.rows[k][c]] IN
  KthSmallest(col, (NumEvents + 1) \div 2) + KthSmallest(col, NumEvents \div 2 + 1)

\* squared distance of event k to the point with doubled coordinates (m1, m2),
\* in 1/(2*Res) units
DistSq(k, m1, m2) ==
  (m1 - 2 * data.rows[k][1]) * (m1 - 2 * data.rows[k][1])
    + (m2 - 2 * data.rows[k][2]) * (m2 - 2 * data.rows[k][2])

\* squared distances of the events to the per-channel median
DistSqToMedian ==
  LET m1 == ColumnMedian2(1)
      m2 == ColumnMedian2(2)
  IN  Array([k \in 1..NumEvents |-> DistSq(k, m1, m2)])

\* event j comes before event k in the order by the key, then by row index
Before(key, j, k) == key[j] < key[k] \/ (key[j] = key[k] /\ j < k)

\* C1: on a table with at least 2 events and 2 channels, circular_median and
\* whitening return a mask of length N with exactly ceil(gate_fraction * N)
\* True entries
C1_ExactCount ==
  (gate \in {"circular_median", "whitening"} /\ ValidTable)
    => /\ ret.outcome = "ok"
       /\ DOMAIN ret.mask = 1..NumEvents
       /\ \A k \in 1..NumEvents : ret.mask[k] \in BOOLEAN
       /\ CountTrue(ret.mask) = CeilFraction(args.gate_fraction, NumEvents)

\* whitening has ranked a table whose scatter is not singular, the fraction
\* of N is not whole, and some events are gated out
C1_Witness ==
  /\ gate = "whitening" /\ ValidTable /\ ret.outcome = "ok" /\ ret.finite
  /\ (args.gate_fraction.num * NumEvents) % args.gate_fraction.den # 0
  /\ CountTrue(ret.mask) < NumEvents

\* C2: circular_median marks exactly the first n = ceil(gate_fraction * N)
\* events of the order by ascending distance to the per-channel median, events
\* at equal distance ordered by row index
C2_ClosestStable ==
  (gate = "circular_median" /\ ValidTable)
    => LET dist == DistSqToMedian
           n == CeilFraction(args.gate_fraction, NumEvents)
       IN  /\ ret.outcome = "ok"
           /\ \A k \in 1..NumEvents :
                ret.mask[k] <=> Cardinality({j \in 1..NumEvents : Before(dist, j, k)}) < n

\* two events tie at the boundary distance and only the lower-indexed is kept
C2_Witness ==
  /\ gate = "circular_median" /\ ValidTable /\ ret.outcome = "ok"
  /\ LET dist == DistSqToMedian IN
     \E j, k \in 1..NumEvents :
       /\ j < k /\ ret.mask[j] /\ ~ret.mask[k]
       /\ dist[j] = dist[k]
       /\ dist[j] > 0

\* C7: the contour of circular_median is NumTheta vertices at the angles
\* 2*pi*k/NumTheta around the median point, all at the distance r of the n-th
\* closest event, then the first vertex again; no kept event is farther than
\* r and no discarded event is closer
C7_Contour ==
  (gate = "circular_median" /\ ValidTable)
    => LET dist == DistSqToMedian
           rsq == KthSmallest(dist, CeilFraction(args.gate_fraction, NumEvents))
           m1 == ColumnMedian2(1)
           m2 == ColumnMedian2(2)
       IN  /\ ret.outcome = "ok"
           /\ Len(ret.contour) = NumTheta + 1
           /\ \A k \in 0..(NumTheta - 1) :
                ret.contour[k + 1] = [cx |-> m1, cy |-> m2, rsq |-> rsq, k |-> k]
           /\ ret.contour[NumTheta + 1] = ret.contour[1]
           /\ \A k \in 1..NumEvents :
                /\ ret.mask[k] => dist[k] <= rsq
                /\ ~ret.mask[k] => dist[k] >= rsq

\* a circle of positive radius with events inside it, on it and outside it
C7_Witness ==
  /\ gate = "circular_median" /\ ValidTable /\ ret.outcome = "ok"
  /\ ret.r > 0
  /\ LET dist == DistSqToMedian IN
     \E i, j, k \in 1..NumEvents :
       dist[i] < ret.r /\ dist[j] = ret.r /\ dist[k] > ret.r

\* C8: when both eigenvalues of S are positive, the scatter matrix of the
\* transformed data, transformed^T transformed / N, is the identity.  Entry
\* [k][i] of the transformed data is p[k][i]*sqrt(sc[i]), so entry (i, j) of
\* the scatter is sum_k p[k][i]*p[k][j] * sqrt(sc[i]*sc[j]) / N
C8_WhitenedScatter ==
  (gate = "whitening" /\ ValidTable /\ ret.outcome = "ok" /\ ret.finite)
    => LET t == ret.transformed_data
           dot(i, j) == SumOver([k \in 1..NumEvents |-> t.p[k][i] * t.p[k][j]], 1..NumEvents)
       IN  /\ \A i \in 1..2 : t.sc[i].num > 0 /\ t.sc[i].den > 0
           /\ \A i \in 1..2 : dot(i, i) * t.sc[i].num = NumEvents * t.sc[i].den
           /\ dot(1, 2) = 0

\* whitening has transformed a table whose eigenvectors are not the axes and
\* whose eigenvalues differ
C8_Witness ==
  /\ gate = "whitening" /\ ValidTable /\ ret.outcome = "ok" /\ ret.finite
  /\ ret.S.xtx[1][2] # 0
  /\ ret.w[1] # ret.w[2]

\* position (from 0) of bin l in the ranking by descending smoothed
\* probability, bins of equal probability by ascending linear index
BinRank(l) ==
  Cardinality({o \in DOMAIN ret.bC :
                 ret.bC[o] > ret.bC[l] \/ (ret.bC[o] = ret.bC[l] /\ o < l)})

\* raw counts summed over the first K bins of the ranking
RawCountOfPrefix(K) ==
  LET pre == {l \in DOMAIN ret.vC : BinRank(l) < K} IN SumOver(ret.vC, pre)

\* C9: the accepted bin set of density is the shortest prefix of the bin
\* ranking whose raw counts sum to at least n = ceil(gate_fraction * N), and
\* the contour level is the smoothed probability of the last bin of it
C9_ShortestPrefix ==
  (gate = "density" /\ ret.outcome = "ok")
    => \E K \in 1..(NumBins * NumBins) :
         /\ ret.accepted_points = {Unravel(l) : l \in {o \in DOMAIN ret.bC : BinRank(o) < K}}
         /\ RawCountOfPrefix(K) >= CeilFraction(args.gate_fraction, NumEvents)
         /\ RawCountOfPrefix(K - 1) < CeilFraction(args.gate_fraction, NumEvents)
         /\ \E l \in DOMAIN ret.bC :
              /\ BinRank(l) = K - 1
              /\ ret.level = [num |-> ret.bC[l], den |-> SumOver(ret.bC, DOMAIN ret.bC)]

\* the prefix has several bins, and its last bin ties in probability with a
\* bin left out
C9_Witness ==
  /\ gate = "density" /\ ret.outcome = "ok"
  /\ Cardinality(ret.accepted_points) > 1
  /\ \E l \in DOMAIN ret.bC :
       /\ ~(Unravel(l) \in ret.accepted_points)
       /\ ret.bC[l] = ret.level.num
       /\ ret.bC[l] > 0

\* the tracer's list holds a code other than 1 and 2
BadCode(t) ==
  \E i \in (Len(t) \div 2 + 1)..Len(t) : \E j \in DOMAIN t[i].codes : ~(t[i].codes[j] \in {1, 2})

\* C10: when density reaches the tracer, its list t is k vertex arrays then k
\* code arrays; a code other than 1 and 2 makes the call fail without a mask
\* or contours, otherwise the contours are the k vertex arrays in order
C10_Contours ==
  (gate = "density" /\ ret.outcome \in {"ok", "Exception"})
    => IF BadCode(ret.t)
       THEN ret.outcome = "Exception" /\ DOMAIN ret = {"outcome", "steps", "t"}
       ELSE /\ ret.outcome = "ok"
            /\ ret.cntr = [i \in 1..(Len(ret.t) \div 2) |-> ret.t[i]]

\* the first code array is familiar and the second is not
C10_Witness ==
  /\ gate = "density" /\ ret.outcome = "Exception"
  /\ Len(ret.t) = 4
  /\ Range(ret.t[3].codes) \subseteq {1, 2}

\* C3: on a table with at least 2 events and 2 channels density returns a
\* mask of length N with at least ceil(gate_fraction * N) True entries (a
\* call the tracer's codes made fail is left aside)
C3_AtLeastTarget ==
  (gate = "density" /\ ValidTable /\ ret.outcome # "Exception")
    => /\ ret.outcome = "ok"
       /\ DOMAIN ret.mask = 1..NumEvents
       /\ CountTrue(ret.mask) >= CeilFraction(args.gate_fraction, NumEvents)

\* the bin an event was counted in: the k with k-0.5 <= value < k+0.5 on
\* each channel (the last bin also takes its upper edge)
InBin(v, k) ==
  \/ (2 * Res * k - Res <= 2 * v /\ 2 * v < 2 * Res * k + Res)
  \/ (k = NumBins - 1 /\ 2 * v = 2 * Res * k + Res)

\* C4: density marks an event exactly when the bin it was counted in is an
\* accepted bin; an event with a value outside [0, NumBins-1] is not marked
C4_BinMembership ==
  (gate = "density" /\ ret.outcome = "ok")
    => \A k \in 1..NumEvents :
         /\ ret.mask[k] <=>
              \E b \in ret.accepted_points :
                InBin(data.rows[k][1], b[1]) /\ InBin(data.rows[k][2], b[2])
         /\ (\E c \in 1..2 : data.rows[k][c] < 0 \/ data.rows[k][c] > Res * (NumBins - 1))
              => ~ret.mask[k]

\* C5: a core gate given fewer than 2 events or fewer than 2 channels raises
\* ValueError before any step of the computation
C5_ValidationFirst ==
  (gate \in {"circular_median", "whitening", "density"} /\ ~ValidTable)
    => ret.outcome = "ValueError" /\ ret.steps = {}

\* C6: start_stop raises when num_start + num_stop > N, and otherwise returns
\* a mask of length N that is False at the first num_start and the last
\* num_stop positions and True elsewhere
C6_StartStop ==
  (gate = "start_stop")
    => IF args.num_start + args.num_stop > NumEvents
       THEN ret.outcome = "ValueError"
       ELSE /\ ret.outcome = "ok"
            /\ DOMAIN ret.mask = 1..NumEvents
            /\ \A k \in 1..NumEvents :
                 ret.mask[k] <=> (k > args.num_start /\ k <= NumEvents - args.num_stop)
            /\ CountTrue(ret.mask) = NumEvents - args.num_start - args.num_stop

====
